---------------------------- MODULE Spec2Model ----------------------------
(***************************************************************************)
(* ServerManage (servermanage.py): named icon/banner assets per guild, a   *)
(* "MM-DD" schedule per guild and category, and the daily loop that        *)
(* applies the asset scheduled for today.                                  *)
(*                                                                         *)
(* Command handlers and the loop are coroutines on one event loop.  Every  *)
(* action below is the code that runs between two awaits: it starts where  *)
(* an await resumes and ends at the next await that can suspend.  An       *)
(* `async with config...() as v` block holds the value's lock and writes   *)
(* the value back on exit, so it is one read-modify-write step.            *)
(***************************************************************************)
EXTENDS Integers, Sequences, FiniteSets, TLC

(***************************************************************************)
(* Bounds of the model.                                                    *)
(***************************************************************************)
MaxDays == 2        \* midnights that pass
MaxCmds == 5        \* commands issued
MaxRemoves == 1     \* `remove` commands issued beside the daily loop
MaxConc == 3        \* commands issued while others are in flight
MaxTyped == 1       \* commands typed beside the daily loop, icon or banner

Guilds     == {"g1", "g2"}
GuildOrder == <<"g1", "g2">>          \* bot.guilds, the order of iteration
Cats       == {"icons", "banners"}    \* imageType
Names      == {"winter", "summer"}
Handlers   == {"h1", "h2"}            \* command invocations in flight

(***************************************************************************)
(* Finite maps (Python dicts).                                             *)
(***************************************************************************)
EmptyMap == [k \in {} |-> k]

Put(f, k, v) == [j \in DOMAIN f \cup {k} |-> IF j = k THEN v ELSE f[j]]

Del(f, k) == [j \in DOMAIN f \ {k} |-> f[j]]

Values(f) == {f[k] : k \in DOMAIN f}

(***************************************************************************)
(* Text.  A string the code takes apart or compares character by character *)
(* is a sequence of one-character strings.                                 *)
(***************************************************************************)
Digits == <<"0", "1", "2", "3", "4", "5", "6", "7", "8", "9">>

\* str.lower() on the characters of a file extension
LowerChar(c) ==
  CASE c = "P" -> "p" [] c = "N" -> "n" [] c = "G" -> "g"
    [] c = "I" -> "i" [] c = "F" -> "f" [] c = "J" -> "j"
    [] c = "Y" -> "y" [] c = "E" -> "e" [] c = "S" -> "s"
    [] c = "O" -> "o"
    [] OTHER -> c

Lower(s) == [i \in DOMAIN s |-> LowerChar(s[i])]

\* "%d": no leading zero
Pad2NoZero(n) ==
  IF n < 10 THEN <<Digits[n + 1]>>
  ELSE <<Digits[(n \div 10) + 1], Digits[(n % 10) + 1]>>

\* "%02d" as strftime's %m and %d print it
Pad2(n) == <<Digits[(n \div 10) + 1], Digits[(n % 10) + 1]>>

\* datetime(2020, month, day).strftime("%m-%d")
StorageDate(month, day) == Pad2(month) \o <<"-">> \o Pad2(day)

DigitValue(c) == (CHOOSE i \in DOMAIN Digits : Digits[i] = c) - 1

\* a parse that takes the day for the month
FromIsoFormatDayFirst(key) ==
  <<DigitValue(key[4]) * 10 + DigitValue(key[5]),
    DigitValue(key[1]) * 10 + DigitValue(key[2])>>

\* date.fromisoformat(f"2020-{changeDate}"): the (month, day) of a key
FromIsoFormat(key) ==
  <<DigitValue(key[1]) * 10 + DigitValue(key[2]),
    DigitValue(key[4]) * 10 + DigitValue(key[5])>>

(***************************************************************************)
(* validDate: datetime(2020, month, day) raises ValueError unless the      *)
(* month is 1..12 and the day is 1..days of that month of 2020.            *)
(***************************************************************************)
ReferenceYear == 2020

IsLeap(year) == year % 4 = 0 /\ (year % 100 # 0 \/ year % 400 = 0)

DaysInMonthTable == <<31, 28, 31, 30, 31, 30, 31, 31, 30, 31, 30, 31>>

DaysInMonth(year, month) ==
  IF month = 2 /\ IsLeap(year) THEN 29 ELSE DaysInMonthTable[month]

DateConstructs(year, month, day) ==
  /\ 1 <= month /\ month <= 12
  /\ 1 <= day /\ day <= DaysInMonth(year, month)

\* validDate with a reference year that is no leap year
validDateNonLeap(month, day) == DateConstructs(ReferenceYear + 1, month, day)

validDate(month, day) == DateConstructs(ReferenceYear, month, day)

(***************************************************************************)
(* Attachments and validateImageAttachment.                                *)
(***************************************************************************)
NoDimension == 0    \* height/width None or 0: both are falsy in the code

\* message.attachments: how many there are, and the first one
Attachment(count, height, width, ext, bytes) ==
  [count |-> count, height |-> height, width |-> width, ext |-> ext,
   bytes |-> bytes]

NoAttachment == Attachment(0, NoDimension, NoDimension, <<>>, "none")

PNG == <<".", "p", "n", "g">>
GIF == <<".", "g", "i", "f">>

\* the exception validateImageAttachment raises, or "ok"
validateImageAttachment(att) ==
  IF att.count # 1 THEN "InvalidAttachmentsError"
  ELSE IF att.height = NoDimension /\ att.width = NoDimension
       THEN "InvalidFileError"
  ELSE IF Lower(att.ext) \notin {PNG, GIF} THEN "InvalidImageError"
  ELSE "ok"

\* the stored file's path: directory of the guild and image type, filename
getFullFilepath(guild, imageDetails, imageType) ==
  <<guild, imageType>> \o imageDetails.filename

(***************************************************************************)
(* State.                                                                  *)
(***************************************************************************)
VARIABLES
  images,       \* images[g][cat]: name -> [filename |-> ...]   (config)
  dates,        \* dates[g][cat]:  "MM-DD" key -> name          (config)
  files,        \* path -> bytes                                (disk)
  handler,      \* handler[h]: a command invocation and its locals
  ncmds,        \* commands issued so far
  now,          \* datetime.now(): <<month, day>> of the local date
  ndays,        \* midnights passed so far
  lastChecked,  \* self.lastChecked: <<month, day>>
  loop,         \* imageLoop: where it is suspended, and its locals
  noPermission, \* the guilds where the bot lacks Manage Server
  woken,        \* imageLoop has tested the day since the last midnight
  unloaded,     \* cog_unload has been called
  edits         \* guild.edit calls made, in order

vars == <<images, dates, files, handler, ncmds, now, ndays, lastChecked,
          loop, noPermission, unloaded, woken, edits>>

cfgVars   == <<images, dates, files>>
loopVars  ==
  <<now, ndays, lastChecked, loop, noPermission, unloaded, woken, edits>>

(***************************************************************************)
(* Command invocations.                                                    *)
(***************************************************************************)
\* what ctx.send is given (the f-string's values left out)
MsgAttachOne    == "Please attach one file!"
MsgNotImage     == "The file is not an image, please upload an image!"
MsgNotPngGif    == "Please upload a PNG or GIF image!"
MsgTooLongAdd   == "You took too long, not overwriting the existing image."
MsgNotOverwrite == "Not overwriting the image."
MsgSaved        == "Saved the image!"
MsgDoesntExist  == "This image doesn't exist!"
MsgTooLongDel   == "You took too long, not deleting the image."
MsgNotDeleting  == "Not deleting the image."
MsgDeleted      == "Deleted the image!"
MsgDosentExist  == "This image dosent exist!"
MsgFile         == "(the file)"
MsgFileMissing  == ":warning: Error: The file does not exist"
MsgNoImages     == "There are no images, please add some first!"
MsgListed       == "Server image changes"
MsgInvalidDate  == "Please enter a valid date!"
MsgWillChange   == "On this date, the server image will change"
MsgRemoved      == "Removed this date from image changes."
MsgNoChanges    == "There are no image changes on this date!"

NoCommand ==
  [cmd |-> "none", guild |-> "none", imageType |-> "none", name |-> "none",
   month |-> 0, day |-> 0, ok |-> FALSE]

\* no message has ended a confirmation wait
NoReply == [author |-> "none", channel |-> "none", content |-> <<>>]

IdleHandler ==
  [pc |-> "idle", cmd |-> "none", guild |-> "none", imageType |-> "none",
   name |-> "none", month |-> 0, day |-> 0, att |-> NoAttachment,
   images |-> EmptyMap, confirmed |-> FALSE, reply |-> NoReply,
   msg |-> "none", log |-> "none",
   out |-> [lines |-> <<>>, notAssigned |-> {}], prev |-> NoCommand]

\* what a finished invocation was, for the invocation that follows it
Summary(r) ==
  [cmd |-> r.cmd, guild |-> r.guild, imageType |-> r.imageType,
   name |-> r.name, month |-> r.month, day |-> r.day,
   ok |-> r.pc = "done" /\ r.msg \in {MsgSaved, MsgDeleted, MsgWillChange,
                                       MsgRemoved, MsgListed}]

\* a new invocation in slot h
Invoke(h, cmd, g, cat, name, month, day, att) ==
  [IdleHandler EXCEPT !.pc = "start", !.cmd = cmd, !.guild = g,
     !.imageType = cat, !.name = name, !.month = month, !.day = day,
     !.att = att, !.prev = Summary(handler[h])]

Free(h) == handler[h].pc \in {"idle", "done", "error"}

CanInvoke(h) == Free(h) /\ ncmds < MaxCmds

\* the invocation returns after a last ctx.send(msg)
Return(r, msg) ==
  [r EXCEPT !.pc = "done", !.msg = msg, !.images = EmptyMap,
            !.reply = NoReply]

\* the invocation ends in an exception nothing catches
Raise(r, exc) ==
  [r EXCEPT !.pc = "error", !.msg = exc, !.images = EmptyMap,
            !.reply = NoReply]

SetCfg(table, g, cat, value) == [table EXCEPT ![g][cat] = value]


YES == <<"y", "e", "s">>

\* a check that looks at the channel only
checkChannelOnly(author, channel) == channel = "same"

\* check(msg) of the confirmation wait: the author and channel of the command
check(author, channel) == author = "requester" /\ channel = "same"

(***************************************************************************)
(* imageAdd                                                                *)
(***************************************************************************)
imageDict(name, att) == [filename |-> <<name>> \o Lower(att.ext)]

\* validate the attachment, then read the images of the guild
imageAdd_Start(h, g, cat, name, att) ==
  /\ CanInvoke(h)
  /\ LET r == Invoke(h, "add", g, cat, name, 0, 0, att)
         v == validateImageAttachment(att)
     IN  handler' = [handler EXCEPT ![h] =
           IF v = "InvalidAttachmentsError" THEN Return(r, MsgAttachOne)
           ELSE IF v = "InvalidFileError" THEN Return(r, MsgNotImage)
           ELSE IF v = "InvalidImageError" THEN Return(r, MsgNotPngGif)
           ELSE IF name \in DOMAIN images[g][cat]
                THEN [r EXCEPT !.pc = "add_confirm", !.images = images[g][cat]]
                ELSE [r EXCEPT !.pc = "add_save", !.images = images[g][cat]]]
  /\ ncmds' = ncmds + 1
  /\ UNCHANGED <<cfgVars, loopVars>>


\* the reply (or any message) the confirmation wait is handed
imageAdd_Reply(h, author, channel, content) ==
  /\ handler[h].pc = "add_confirm"
  /\ handler' = [handler EXCEPT ![h] =
       IF ~check(author, channel) THEN @
       ELSE IF Lower(content) # YES THEN Return(@, MsgNotOverwrite)
       ELSE [@ EXCEPT !.pc = "add_save", !.confirmed = TRUE,
               !.reply = [author |-> author, channel |-> channel,
                          content |-> content]]]
  /\ UNCHANGED <<cfgVars, ncmds, loopVars>>

\* asyncio.TimeoutError after 30 seconds
imageAdd_Timeout(h) ==
  /\ handler[h].pc = "add_confirm"
  /\ handler' = [handler EXCEPT ![h] = Return(@, MsgTooLongAdd)]
  /\ UNCHANGED <<cfgVars, ncmds, loopVars>>

\* attachments[0].save(filepath)
imageAdd_Save(h) ==
  /\ handler[h].pc = "add_save"
  /\ LET r == handler[h]
         filepath == getFullFilepath(r.guild, imageDict(r.name, r.att),
                                     r.imageType)
     IN  files' = Put(files, filepath, r.att.bytes)
  /\ handler' = [handler EXCEPT ![h].pc = "add_write"]
  /\ UNCHANGED <<images, dates, ncmds, loopVars>>

\* a write of the images read before the confirmation, with the name added
imageAdd_WriteSnapshot(h) ==
  /\ handler[h].pc = "add_write"
  /\ LET r == handler[h]
     IN  images' = SetCfg(images, r.guild, r.imageType,
                          Put(r.images, r.name, imageDict(r.name, r.att)))
  /\ handler' = [handler EXCEPT ![h] = Return(@, MsgSaved)]
  /\ UNCHANGED <<dates, files, ncmds, loopVars>>

\* async with ...() as images: images[name] = imageDict
imageAdd_Write(h) ==
  /\ handler[h].pc = "add_write"
  /\ LET r == handler[h]
     IN  images' = SetCfg(images, r.guild, r.imageType,
                          Put(images[r.guild][r.imageType], r.name,
                              imageDict(r.name, r.att)))
  /\ handler' = [handler EXCEPT ![h] = Return(@, MsgSaved)]
  /\ UNCHANGED <<dates, files, ncmds, loopVars>>

(***************************************************************************)
(* imageRemove                                                             *)
(***************************************************************************)
imageRemove_Start(h, g, cat, name) ==
  /\ CanInvoke(h)
  /\ LET r == Invoke(h, "remove", g, cat, name, 0, 0, NoAttachment)
     IN  handler' = [handler EXCEPT ![h] =
           IF name \notin DOMAIN images[g][cat]
           THEN Return(r, MsgDoesntExist)
           ELSE [r EXCEPT !.pc = "rm_confirm", !.images = images[g][cat]]]
  /\ ncmds' = ncmds + 1
  /\ UNCHANGED <<cfgVars, loopVars>>

\* a remove that does not catch the FileNotFoundError of os.remove
imageRemove_ReplyNoCatch(h, author, channel, content) ==
  /\ handler[h].pc = "rm_confirm"
  /\ LET r == handler[h]
         filepath == getFullFilepath(r.guild, r.images[r.name], r.imageType)
     IN  IF ~check(author, channel)
         THEN UNCHANGED <<handler, files>>
         ELSE IF Lower(content) # YES
         THEN /\ handler' = [handler EXCEPT ![h] = Return(@, MsgNotDeleting)]
              /\ UNCHANGED files
         ELSE IF filepath \notin DOMAIN files
         THEN /\ handler' = [handler EXCEPT ![h] =
                   Raise(@, "FileNotFoundError")]
              /\ UNCHANGED files
         ELSE /\ handler' = [handler EXCEPT ![h] =
                   [@ EXCEPT !.pc = "rm_del", !.confirmed = TRUE,
                      !.reply = [author |-> author, channel |-> channel,
                                 content |-> content]]]
              /\ files' = Del(files, filepath)
  /\ UNCHANGED <<images, dates, ncmds, loopVars>>

\* the reply; on "yes" os.remove(filepath) runs before the next await
imageRemove_Reply(h, author, channel, content) ==
  /\ handler[h].pc = "rm_confirm"
  /\ LET r == handler[h]
         filepath == getFullFilepath(r.guild, r.images[r.name], r.imageType)
     IN  IF ~check(author, channel)
         THEN UNCHANGED <<handler, files>>
         ELSE IF Lower(content) # YES
         THEN /\ handler' = [handler EXCEPT ![h] = Return(@, MsgNotDeleting)]
              /\ UNCHANGED files
         ELSE /\ handler' = [handler EXCEPT ![h] =
                   [@ EXCEPT !.pc = "rm_del", !.confirmed = TRUE,
                      !.reply = [author |-> author, channel |-> channel,
                                 content |-> content],
                      !.log = IF filepath \in DOMAIN files THEN @
                              ELSE "File does not exist"]]
              /\ files' = Del(files, filepath)
  /\ UNCHANGED <<images, dates, ncmds, loopVars>>

imageRemove_Timeout(h) ==
  /\ handler[h].pc = "rm_confirm"
  /\ handler' = [handler EXCEPT ![h] = Return(@, MsgTooLongDel)]
  /\ UNCHANGED <<cfgVars, ncmds, loopVars>>

\* async with ...() as images: del images[name]
imageRemove_Del(h) ==
  /\ handler[h].pc = "rm_del"
  /\ LET r == handler[h]
         current == images[r.guild][r.imageType]
     IN  IF r.name \notin DOMAIN current
         THEN /\ handler' = [handler EXCEPT ![h] = Raise(@, "KeyError")]
              /\ UNCHANGED images
         ELSE /\ handler' = [handler EXCEPT ![h].pc = "rm_cascade"]
              /\ images' = SetCfg(images, r.guild, r.imageType,
                                  Del(current, r.name))
  /\ UNCHANGED <<dates, files, ncmds, loopVars>>

\* a cascade that finds no date
datesToRemoveNone(datesMap, name) == {}

\* the dates whose image is `name`, collected and then deleted

datesToRemove(datesMap, name) ==
  {date \in DOMAIN datesMap : name = datesMap[date]}

\* async with ...Dates() as dates: delete every date of this image
imageRemove_Cascade(h) ==
  /\ handler[h].pc = "rm_cascade"
  /\ LET r == handler[h]
         current == dates[r.guild][r.imageType]
         gone == datesToRemove(current, r.name)
     IN  dates' = SetCfg(dates, r.guild, r.imageType,
                         [date \in DOMAIN current \ gone |-> current[date]])
  /\ handler' = [handler EXCEPT ![h] = Return(@, MsgDeleted)]
  /\ UNCHANGED <<images, files, ncmds, loopVars>>

(***************************************************************************)
(* imageDateSet, imageDateReset                                            *)
(***************************************************************************)
\* imageDateSet that does not look the name up
imageDateSet_StartAnyName(h, g, cat, month, day, name) ==
  /\ CanInvoke(h)
  /\ LET r == Invoke(h, "set", g, cat, name, month, day, NoAttachment)
     IN  handler' = [handler EXCEPT ![h] =
           IF ~validDate(month, day) THEN Return(r, MsgInvalidDate)
           ELSE [r EXCEPT !.pc = "set_write"]]
  /\ ncmds' = ncmds + 1
  /\ UNCHANGED <<cfgVars, loopVars>>

\* validDate, then `name not in await ...()`
imageDateSet_Start(h, g, cat, month, day, name) ==
  /\ CanInvoke(h)
  /\ LET r == Invoke(h, "set", g, cat, name, month, day, NoAttachment)
     IN  handler' = [handler EXCEPT ![h] =
           IF ~validDate(month, day) THEN Return(r, MsgInvalidDate)
           ELSE IF name \notin DOMAIN images[g][cat]
                THEN Return(r, MsgDoesntExist)
                ELSE [r EXCEPT !.pc = "set_write"]]
  /\ ncmds' = ncmds + 1
  /\ UNCHANGED <<cfgVars, loopVars>>

\* async with ...Dates() as imageDates: imageDates[storageDate] = name
imageDateSet_Write(h) ==
  /\ handler[h].pc = "set_write"
  /\ LET r == handler[h]
         storageDate == StorageDate(r.month, r.day)
     IN  dates' = SetCfg(dates, r.guild, r.imageType,
                         Put(dates[r.guild][r.imageType], storageDate, r.name))
  /\ handler' = [handler EXCEPT ![h] = Return(@, MsgWillChange)]
  /\ UNCHANGED <<images, files, ncmds, loopVars>>

\* a reset that empties the schedule of the category
imageDateResetClears(h, g, cat, month, day) ==
  /\ CanInvoke(h)
  /\ LET r == Invoke(h, "reset", g, cat, "none", month, day, NoAttachment)
         storageDate == StorageDate(month, day)
     IN  IF ~validDate(month, day)
         THEN /\ handler' = [handler EXCEPT ![h] = Return(r, MsgInvalidDate)]
              /\ UNCHANGED dates
         ELSE IF storageDate \in DOMAIN dates[g][cat]
         THEN /\ handler' = [handler EXCEPT ![h] = Return(r, MsgRemoved)]
              /\ dates' = SetCfg(dates, g, cat, EmptyMap)
         ELSE /\ handler' = [handler EXCEPT ![h] = Return(r, MsgNoChanges)]
              /\ UNCHANGED dates
  /\ ncmds' = ncmds + 1
  /\ UNCHANGED <<images, files, loopVars>>

\* validDate, then one async with block
imageDateReset(h, g, cat, month, day) ==
  /\ CanInvoke(h)
  /\ LET r == Invoke(h, "reset", g, cat, "none", month, day, NoAttachment)
         storageDate == StorageDate(month, day)
     IN  IF ~validDate(month, day)
         THEN /\ handler' = [handler EXCEPT ![h] = Return(r, MsgInvalidDate)]
              /\ UNCHANGED dates
         ELSE IF storageDate \in DOMAIN dates[g][cat]
         THEN /\ handler' = [handler EXCEPT ![h] = Return(r, MsgRemoved)]
              /\ dates' = SetCfg(dates, g, cat, Del(dates[g][cat], storageDate))
         ELSE /\ handler' = [handler EXCEPT ![h] = Return(r, MsgNoChanges)]
              /\ UNCHANGED dates
  /\ ncmds' = ncmds + 1
  /\ UNCHANGED <<images, files, loopVars>>

(***************************************************************************)
(* imageShow                                                               *)
(***************************************************************************)
\* the images are read; the file is opened and sent, or found missing
imageShow(h, g, cat, name) ==
  /\ CanInvoke(h)
  /\ LET r == Invoke(h, "show", g, cat, name, 0, 0, NoAttachment)
         registry == images[g][cat]
     IN  handler' = [handler EXCEPT ![h] =
           IF name \notin DOMAIN registry THEN Return(r, MsgDosentExist)
           ELSE IF getFullFilepath(g, registry[name], cat) \in DOMAIN files
                THEN Return(r, MsgFile)
                ELSE [Return(r, MsgFileMissing) EXCEPT
                        !.log = "File does not exist"]]
  /\ ncmds' = ncmds + 1
  /\ UNCHANGED <<cfgVars, loopVars>>

(***************************************************************************)
(* imageList                                                               *)
(***************************************************************************)
\* ord() of the characters of a date key: "-" sorts before the digits
Ord(c) == IF c = "-" THEN 0 ELSE DigitValue(c) + 1

\* Python's str < str
RECURSIVE StrLess(_, _)
StrLess(s, t) ==
  IF s = <<>> THEN t # <<>>
  ELSE IF t = <<>> THEN FALSE
  ELSE IF Head(s) # Head(t) THEN Ord(Head(s)) < Ord(Head(t))
  ELSE StrLess(Tail(s), Tail(t))

\* a sort that puts the greatest key first
RECURSIVE SortedDescending(_)
SortedDescending(S) ==
  IF S = {} THEN <<>>
  ELSE LET greatest == CHOOSE k \in S : \A j \in S \ {k} : StrLess(j, k)
       IN  <<greatest>> \o SortedDescending(S \ {greatest})

\* sorted(keys)
RECURSIVE Sorted(_)
Sorted(S) ==
  IF S = {} THEN <<>>
  ELSE LET least == CHOOSE k \in S : \A j \in S \ {k} : StrLess(k, j)
       IN  <<least>> \o Sorted(S \ {least})

imageList_Start(h, g, cat) ==
  /\ CanInvoke(h)
  /\ LET r == Invoke(h, "list", g, cat, "none", 0, 0, NoAttachment)
     IN  handler' = [handler EXCEPT ![h] =
           IF DOMAIN images[g][cat] = {} THEN Return(r, MsgNoImages)
           ELSE [r EXCEPT !.pc = "list_dates", !.images = images[g][cat]]]
  /\ ncmds' = ncmds + 1
  /\ UNCHANGED <<cfgVars, loopVars>>

\* async with ...Dates() as imageDates: one line per date, then the rest
imageList_Dates(h) ==
  /\ handler[h].pc = "list_dates"
  /\ LET r == handler[h]
         imageDates == dates[r.guild][r.imageType]
         keys == Sorted(DOMAIN imageDates)
         lines == [i \in DOMAIN keys |->
                     [theDate |-> FromIsoFormat(keys[i]),
                      name |-> imageDates[keys[i]]]]
         notAssigned == DOMAIN r.images \ Values(imageDates)
     IN  handler' = [handler EXCEPT ![h] =
           [Return(@, MsgListed) EXCEPT
              !.out = [lines |-> lines, notAssigned |-> notAssigned]]]
  /\ UNCHANGED <<cfgVars, ncmds, loopVars>>


(***************************************************************************)
(* The clock.  Only the local date matters to the code.                    *)
(***************************************************************************)
\* the dates that can follow date d (28 February: of a leap year or not)
NextDays(d) ==
  IF d = <<2, 28>> THEN {<<2, 29>>, <<3, 1>>}
  ELSE IF d[2] >= DaysInMonth(ReferenceYear, d[1])
       THEN {<<(d[1] % 12) + 1, 1>>}
       ELSE {<<d[1], d[2] + 1>>}

AllDates ==
  {<<m, d>> : m \in 1..12, d \in 1..31} \cap
  {md \in (1..12) \X (1..31) : md[2] <= DaysInMonth(ReferenceYear, md[1])}

\* a marker that is not taken a day back
PrevDaysNoneBack(d) == {d}

\* datetime.now() - timedelta(days=1)
PrevDays(d) == {p \in AllDates : d \in NextDays(p)}

\* Midnight.  The loop sleeps 60 seconds at a time, so while its task lives
\* it tests the day at least once between two midnights; a check takes far
\* less than a day, so only the check begun when the cog was loaded (at any
\* time of the day) can still be running at midnight.
Midnight ==
  /\ ndays < MaxDays
  /\ \/ loop.pc \in {"dead", "cancelled"}
     \/ woken /\ (loop.pc = "sleep" \/ ndays = 0)
  /\ now' \in NextDays(now)
  /\ ndays' = ndays + 1
  /\ woken' = FALSE
  /\ UNCHANGED <<cfgVars, handler, ncmds, lastChecked, loop, noPermission,
                 unloaded,
                 edits>>

(***************************************************************************)
(* imageLoop, checkGuildIcons, checkGuildBanners                           *)
(***************************************************************************)
IdleLoop ==
  [pc |-> "sleep", gi |-> 0, today |-> <<>>, name |-> "none", cause |-> "none"]

\* datetime.now().strftime("%m-%d")
Today == StorageDate(now[1], now[2])

\* checkGuildIcons(guild) is entered: today is taken, the dates are awaited
EnterIcons(gi) == [IdleLoop EXCEPT !.pc = "icons_dates", !.gi = gi,
                                   !.today = Today]

\* checkGuildBanners(guild) is entered
EnterBanners(gi) == [IdleLoop EXCEPT !.pc = "banners_dates", !.gi = gi,
                                     !.today = Today]

\* after the banners of a guild: the next guild, or asyncio.sleep(60)
NextGuild(gi) == IF gi < Len(GuildOrder) THEN EnterIcons(gi + 1) ELSE IdleLoop

\* an exception leaves checkGuild... and imageLoop: the task ends
Dies(exc) == [IdleLoop EXCEPT !.pc = "dead", !.cause = exc]

\* a loop that compares the month of the last check, not the day
imageLoop_WakeByMonth ==
  /\ loop.pc \in {"start", "sleep"}
  /\ IF lastChecked[1] # now[1]
     THEN /\ lastChecked' = now
          /\ loop' = IF Len(GuildOrder) = 0 THEN IdleLoop ELSE EnterIcons(1)
     ELSE /\ loop' = IdleLoop
          /\ UNCHANGED lastChecked
  /\ woken' = TRUE
  /\ UNCHANGED <<cfgVars, handler, ncmds, now, ndays, noPermission,
                 unloaded, edits>>

\* the task starts, or asyncio.sleep(60) returns: the test of the day
imageLoop_Wake ==
  /\ loop.pc \in {"start", "sleep"}
  /\ IF lastChecked[2] # now[2]
     THEN /\ lastChecked' = now
          /\ loop' = IF Len(GuildOrder) = 0 THEN IdleLoop ELSE EnterIcons(1)
     ELSE /\ loop' = IdleLoop
          /\ UNCHANGED lastChecked
  /\ woken' = TRUE
  /\ UNCHANGED <<cfgVars, handler, ncmds, now, ndays, noPermission,
                 unloaded, edits>>

\* the dates are read: is today in them?
checkGuild_Dates(imageType, skipTo) ==
  LET guild == GuildOrder[loop.gi]
      imageDates == dates[guild][imageType]
  IN  /\ loop' = IF loop.today \in DOMAIN imageDates
                 THEN [loop EXCEPT !.pc = imageType \o "_images",
                                   !.name = imageDates[loop.today]]
                 ELSE skipTo
      /\ UNCHANGED <<cfgVars, handler, ncmds, now, ndays, lastChecked,
                     noPermission, unloaded, woken, edits>>

\* the images are read, the file is opened and read, guild.edit is called
checkGuild_Images(imageType) ==
  LET guild == GuildOrder[loop.gi]
      imgs == images[guild][imageType]
      filepath == getFullFilepath(guild, imgs[loop.name], imageType)
  IN  /\ IF loop.name \notin DOMAIN imgs
         THEN /\ loop' = Dies("KeyError")
              /\ UNCHANGED edits
         ELSE IF filepath \notin DOMAIN files
         THEN /\ loop' = Dies("FileNotFoundError")
              /\ UNCHANGED edits
         ELSE /\ loop' = [loop EXCEPT !.pc = imageType \o "_edit"]
              /\ edits' = Append(edits,
                   [guild |-> guild, imageType |-> imageType, day |-> now,
                    today |-> loop.today, name |-> loop.name,
                    bytes |-> files[filepath], result |-> "sent"])
      /\ UNCHANGED <<cfgVars, handler, ncmds, now, ndays, lastChecked,
                     noPermission, unloaded, woken>>

\* guild.edit returns, or raises Forbidden where the bot lacks the
\* permission (caught and logged), or raises another HTTPException (not
\* caught)
checkGuild_Edit(failure, continueAt) ==
  LET outcome == IF GuildOrder[loop.gi] \in noPermission THEN "Forbidden"
                 ELSE IF failure THEN "HTTPException"
                 ELSE "changed"
  IN  /\ edits' = [edits EXCEPT ![Len(edits)].result = outcome]
      /\ loop' = IF outcome = "HTTPException" THEN Dies(outcome)
                 ELSE continueAt
      /\ UNCHANGED <<cfgVars, handler, ncmds, now, ndays, lastChecked,
                     noPermission, unloaded, woken>>

checkGuildIcons_Dates ==
  /\ loop.pc = "icons_dates"
  /\ checkGuild_Dates("icons", EnterBanners(loop.gi))

checkGuildIcons_Images ==
  /\ loop.pc = "icons_images"
  /\ checkGuild_Images("icons")

checkGuildIcons_Edit(failure) ==
  /\ loop.pc = "icons_edit"
  /\ checkGuild_Edit(failure, EnterBanners(loop.gi))

checkGuildBanners_Dates ==
  /\ loop.pc = "banners_dates"
  /\ checkGuild_Dates("banners", NextGuild(loop.gi))

checkGuildBanners_Images ==
  /\ loop.pc = "banners_images"
  /\ checkGuild_Images("banners")

checkGuildBanners_Edit(failure) ==
  /\ loop.pc = "banners_edit"
  /\ checkGuild_Edit(failure, NextGuild(loop.gi))

imageLoop ==
  \/ imageLoop_Wake
  \/ checkGuildIcons_Dates
  \/ checkGuildIcons_Images
  \/ \E failure \in BOOLEAN : checkGuildIcons_Edit(failure)
  \/ checkGuildBanners_Dates
  \/ checkGuildBanners_Images
  \/ \E failure \in BOOLEAN : checkGuildBanners_Edit(failure)

(***************************************************************************)
(* Initial states.                                                         *)
(***************************************************************************)
StartDates == {<<12, 24>>}

\* BASE_GUILD, an empty data folder, no command yet; the task is created
\* with lastChecked a day back
Init ==
  /\ images = [g \in Guilds |-> [cat \in Cats |-> EmptyMap]]
  /\ dates = [g \in Guilds |-> [cat \in Cats |-> EmptyMap]]
  /\ files = EmptyMap
  /\ handler = [h \in Handlers |-> IdleHandler]
  /\ ncmds = 0
  /\ now \in StartDates
  /\ ndays = 0
  /\ lastChecked \in PrevDays(now)
  /\ loop = [IdleLoop EXCEPT !.pc = "start"]
  /\ noPermission = {}
  /\ woken = FALSE
  /\ unloaded = FALSE
  /\ edits = <<>>

(***************************************************************************)
(* Commands: what is typed, by whom.                                       *)
(***************************************************************************)
Replies == {<<"y", "e", "s">>, <<"Y", "e", "s">>, <<"n", "o">>}

Confirmation(h) ==
  \/ \E author \in {"requester", "other"}, channel \in {"same", "other"},
        content \in Replies :
       \/ imageAdd_Reply(h, author, channel, content)
       \/ imageRemove_Reply(h, author, channel, content)
  \/ imageAdd_Timeout(h)
  \/ imageRemove_Timeout(h)

\* the steps of the invocation in slot h
Continue(h) ==
  \/ Confirmation(h)
  \/ imageAdd_Save(h)
  \/ imageAdd_Write(h)
  \/ imageRemove_Del(h)
  \/ imageRemove_Cascade(h)
  \/ imageDateSet_Write(h)
  \/ imageList_Dates(h)

\* commands run one at a time, each to completion
SeqGuilds == {"g1"}
SeqCats   == {"icons"}
SeqDates  == {<<12, 25>>, <<2, 29>>, <<2, 30>>, <<13, 1>>}
SeqAtts   ==
  {Attachment(1, 200, 200, PNG, "bytes1"),
   Attachment(1, 200, 200, GIF, "bytes2")}

NextCmd ==
  \/ \E g \in SeqGuilds, cat \in SeqCats :
       \/ \E name \in Names, att \in SeqAtts :
            imageAdd_Start("h1", g, cat, name, att)
       \/ \E name \in Names : imageRemove_Start("h1", g, cat, name)
       \/ \E md \in SeqDates, name \in Names :
            imageDateSet_Start("h1", g, cat, md[1], md[2], name)
       \/ \E md \in SeqDates : imageDateReset("h1", g, cat, md[1], md[2])
       \/ imageList_Start("h1", g, cat)
  \/ Continue("h1")

SpecCmd == Init /\ [][NextCmd]_vars


(***************************************************************************)
(* The daily loop beside `remove` commands.  Every guild starts with the   *)
(* icon and the banner "winter" added and set on the days to come, which   *)
(* is what add and set leave behind.                                       *)
(***************************************************************************)
RECURSIVE DaysWithin(_, _)
DaysWithin(S, n) ==
  IF n = 0 THEN S
  ELSE DaysWithin(S \cup UNION {NextDays(d) : d \in S}, n - 1)

Window == DaysWithin(StartDates, MaxDays)

WinterPng == [filename |-> <<"winter">> \o PNG]

InitLoop ==
  /\ images = [g \in Guilds |-> [cat \in Cats |-> Put(EmptyMap, "winter", WinterPng)]]
  /\ dates = [g \in Guilds |-> [cat \in Cats |->
                [key \in {StorageDate(d[1], d[2]) : d \in Window} |-> "winter"]]]
  /\ files = [path \in {getFullFilepath(g, WinterPng, cat) :
                          g \in Guilds, cat \in Cats} |-> "bytes1"]
  /\ handler = [h \in Handlers |-> IdleHandler]
  /\ ncmds = 0
  /\ now \in StartDates
  /\ ndays = 0
  /\ lastChecked \in PrevDays(now)
  /\ loop = [IdleLoop EXCEPT !.pc = "start"]
  /\ noPermission \in SUBSET Guilds
  /\ woken = FALSE
  /\ unloaded = FALSE
  /\ edits = <<>>

NextLoop ==
  \/ imageLoop
  \/ Midnight
  \/ \E cat \in Cats :
       ncmds < MaxRemoves /\ imageRemove_Start("h1", "g1", cat, "winter")
  \/ \E author \in {"requester", "other"}, channel \in {"same", "other"},
        content \in Replies : imageRemove_Reply("h1", author, channel, content)
  \/ imageRemove_Timeout("h1")
  \/ imageRemove_Del("h1")
  \/ imageRemove_Cascade("h1")

SpecLoop == InitLoop /\ [][NextLoop]_vars

\* try/except clauses that catch everything raised inside them
ExceptClausesCatchAll(pc) ==
  IF pc \in {"icons_edit", "banners_edit"}
  THEN {"Forbidden", "HTTPException", "CancelledError"}
  ELSE {}

\* the exceptions caught around the await where the loop is suspended:
\* `except discord.errors.Forbidden` around guild.edit, nothing elsewhere
ExceptClauses(pc) ==
  IF pc \in {"icons_edit", "banners_edit"} THEN {"Forbidden"} ELSE {}

\* __unload: bgTask.cancel() throws CancelledError into the task at the
\* await where it is suspended; no code of the task runs before that
cog_unload ==
  /\ loop.pc \notin {"dead", "cancelled"}
  /\ unloaded' = TRUE
  /\ loop' = IF "CancelledError" \notin ExceptClauses(loop.pc)
             THEN [IdleLoop EXCEPT !.pc = "cancelled"]
             ELSE IF loop.pc = "icons_edit" THEN EnterBanners(loop.gi)
             ELSE NextGuild(loop.gi)
  /\ UNCHANGED <<cfgVars, handler, ncmds, now, ndays, lastChecked,
                 noPermission, woken, edits>>

NextLoopUnload == NextLoop \/ cog_unload

\* the event loop resumes the task whenever what it awaits is done
SpecLoopFair ==
  InitLoop /\ [][NextLoopUnload]_vars /\ WF_vars(imageLoop)


(***************************************************************************)
(* Commands of one guild and category issued while others are in flight.   *)
(***************************************************************************)
ConcDates == {<<12, 25>>, <<2, 29>>}

ConcAtts ==
  {Attachment(1, 200, 200, PNG, "bytes1"),
   Attachment(1, 200, 200, PNG, "bytes2")}

Next ==
  \E h \in Handlers :
    \/ /\ ncmds < MaxConc
       /\ \E name \in Names, att \in ConcAtts :
            imageAdd_Start(h, "g1", "icons", name, att)
    \/ /\ ncmds < MaxConc
       /\ \E name \in Names : imageRemove_Start(h, "g1", "icons", name)
    \/ /\ ncmds < MaxConc
       /\ \E md \in ConcDates, name \in Names :
            imageDateSet_Start(h, "g1", "icons", md[1], md[2], name)
    \/ /\ ncmds < MaxConc
       /\ \E md \in ConcDates :
            imageDateReset(h, "g1", "icons", md[1], md[2])
    \/ /\ ncmds < MaxConc
       /\ imageList_Start(h, "g1", "icons")
    \/ /\ ncmds < MaxConc
       /\ \E name \in Names : imageShow(h, "g1", "icons", name)
    \/ Continue(h)

Spec == Init /\ [][Next]_vars


(***************************************************************************)
(* One `set` or `reset` of any month and day, with "winter" added.         *)
(***************************************************************************)
AnyMonth == -1 .. 14
AnyDay   == -1 .. 33

NextDates ==
  \/ /\ ncmds = 0
     /\ \E month \in AnyMonth, day \in AnyDay :
          \/ imageDateSet_Start("h1", "g1", "icons", month, day, "winter")
          \/ imageDateReset("h1", "g1", "icons", month, day)
  \/ imageDateSet_Write("h1")

SpecDates == InitLoop /\ [][NextDates]_vars


(***************************************************************************)
(* `add` commands with any attachments.                                    *)
(***************************************************************************)
AnyExts ==
  {PNG, GIF, <<".", "P", "N", "G">>, <<".", "G", "i", "f">>,
   <<".", "j", "p", "g">>, <<>>}

AnyAtts ==
  {Attachment(1, height, width, ext, "bytes1") :
     height \in {NoDimension, 200}, width \in {NoDimension, 200},
     ext \in AnyExts}
  \cup {NoAttachment, Attachment(2, 200, 200, PNG, "bytes1")}

NextAdd ==
  \/ /\ ncmds < MaxConc
     /\ \E name \in Names, att \in AnyAtts :
          imageAdd_Start("h1", "g1", "icons", name, att)
  \/ \E author \in {"requester", "other"}, channel \in {"same", "other"},
        content \in Replies : imageAdd_Reply("h1", author, channel, content)
  \/ imageAdd_Timeout("h1")
  \/ imageAdd_Save("h1")
  \/ imageAdd_Write("h1")

SpecAdd == Init /\ [][NextAdd]_vars


(***************************************************************************)
(* Two commands on the tables of one guild and category, one in each slot, *)
(* with "winter" added and set on the days to come.                        *)
(***************************************************************************)
PairNames == {"summer", "spring"}
PairDates == {<<2, 29>>, <<3, 1>>}
PairAtt   == Attachment(1, 200, 200, PNG, "bytes2")

NextPair ==
  \E h \in Handlers :
    \/ /\ handler[h].pc = "idle"
       /\ \E name \in PairNames :
            imageAdd_Start(h, "g1", "icons", name, PairAtt)
    \/ /\ handler[h].pc = "idle"
       /\ \E md \in PairDates :
            imageDateSet_Start(h, "g1", "icons", md[1], md[2], "winter")
    \/ /\ handler[h].pc = "idle"
       /\ \E md \in Window : imageDateReset(h, "g1", "icons", md[1], md[2])
    \/ imageAdd_Save(h)
    \/ imageAdd_Write(h)
    \/ imageDateSet_Write(h)

SpecPair == InitLoop /\ [][NextPair]_vars


(***************************************************************************)
(* Commands run one at a time on a data folder that loses files: somebody  *)
(* deletes a stored file from the disk.  "winter" is added and set on the  *)
(* days to come.                                                           *)
(***************************************************************************)
FileLost ==
  /\ \E name \in DOMAIN images["g1"]["icons"] :
       LET filepath == getFullFilepath("g1", images["g1"]["icons"][name],
                                       "icons")
       IN  /\ filepath \in DOMAIN files
           /\ files' = Del(files, filepath)
  /\ UNCHANGED <<images, dates, handler, ncmds, loopVars>>

NextLost ==
  \/ FileLost
  \/ imageAdd_Start("h1", "g1", "icons", "summer", PairAtt)
  \/ \E md \in PairDates :
       imageDateSet_Start("h1", "g1", "icons", md[1], md[2], "summer")
  \/ \E name \in Names : imageRemove_Start("h1", "g1", "icons", name)
  \/ \E name \in Names : imageShow("h1", "g1", "icons", name)
  \/ Confirmation("h1")
  \/ imageAdd_Save("h1")
  \/ imageAdd_Write("h1")
  \/ imageRemove_Del("h1")
  \/ imageRemove_Cascade("h1")
  \/ imageDateSet_Write("h1")

SpecLost == InitLoop /\ [][NextLost]_vars


(***************************************************************************)
(* The commands as they are typed: `servermanage icons ...` and            *)
(* `servermanage banners ...`, in any guild, beside the daily loop.  To    *)
(* tell them apart afterwards, slot h1 takes the icon commands and slot h2 *)
(* the banner commands.  Every guild has the icons and the banners         *)
(* "winter" and "summer" (icons as .png, banners as .gif, with other       *)
(* bytes); today's icon is "winter", today's banner is "summer".           *)
(***************************************************************************)
iconAdd(h, g, iconName, att) == imageAdd_Start(h, g, "icons", iconName, att)

iconRemove(h, g, iconName) == imageRemove_Start(h, g, "icons", iconName)

iconShow(h, g, iconName) == imageShow(h, g, "icons", iconName)

iconList(h, g) == imageList_Start(h, g, "icons")

iconSet(h, g, month, day, iconName) ==
  imageDateSet_Start(h, g, "icons", month, day, iconName)

iconReset(h, g, month, day) == imageDateReset(h, g, "icons", month, day)

bannerAdd(h, g, bannerName, att) ==
  imageAdd_Start(h, g, "banners", bannerName, att)

\* a banner command that leaves imageType to its default
bannerRemoveDefaultType(h, g, bannerName) ==
  imageRemove_Start(h, g, "icons", bannerName)

bannerRemove(h, g, bannerName) ==
  imageRemove_Start(h, g, "banners", bannerName)

bannerShow(h, g, bannerName) == imageShow(h, g, "banners", bannerName)

bannerList(h, g) == imageList_Start(h, g, "banners")

bannerSet(h, g, month, day, bannerName) ==
  imageDateSet_Start(h, g, "banners", month, day, bannerName)

bannerReset(h, g, month, day) == imageDateReset(h, g, "banners", month, day)

TypedExt(cat) == IF cat = "icons" THEN PNG ELSE GIF
TypedBytes(cat) == IF cat = "icons" THEN "bytes1" ELSE "bytes2"
TypedToday(cat) == IF cat = "icons" THEN "winter" ELSE "summer"
TypedDates == {<<12, 24>>, <<2, 29>>}
TypedAtt == Attachment(1, 200, 200, PNG, "bytes3")

InitTyped ==
  /\ images = [g \in Guilds |-> [cat \in Cats |->
                 [n \in Names |-> [filename |-> <<n>> \o TypedExt(cat)]]]]
  /\ now \in StartDates
  /\ dates = [g \in Guilds |-> [cat \in Cats |->
                Put(EmptyMap, StorageDate(now[1], now[2]), TypedToday(cat))]]
  /\ files = [path \in {getFullFilepath(g, [filename |-> <<n>> \o TypedExt(cat)],
                                        cat) :
                          g \in Guilds, cat \in Cats, n \in Names}
                |-> TypedBytes(path[2])]
  /\ handler = [h \in Handlers |-> IdleHandler]
  /\ ncmds = 0
  /\ ndays = 0
  /\ lastChecked \in PrevDays(now)
  /\ loop = [IdleLoop EXCEPT !.pc = "start"]
  /\ noPermission = {}
  /\ woken = FALSE
  /\ unloaded = FALSE
  /\ edits = <<>>

NextTyped ==
  \/ imageLoop
  \/ \E g \in Guilds :
       /\ ncmds < MaxTyped
       /\ \/ \E name \in Names : iconAdd("h1", g, name, TypedAtt)
          \/ \E name \in Names : iconRemove("h1", g, name)
          \/ \E name \in Names : iconShow("h1", g, name)
          \/ iconList("h1", g)
          \/ \E md \in TypedDates, name \in Names :
               iconSet("h1", g, md[1], md[2], name)
          \/ \E md \in TypedDates : iconReset("h1", g, md[1], md[2])
          \/ \E name \in Names : bannerAdd("h2", g, name, TypedAtt)
          \/ \E name \in Names : bannerRemove("h2", g, name)
          \/ \E name \in Names : bannerShow("h2", g, name)
          \/ bannerList("h2", g)
          \/ \E md \in TypedDates, name \in Names :
               bannerSet("h2", g, md[1], md[2], name)
          \/ \E md \in TypedDates : bannerReset("h2", g, md[1], md[2])
  \/ \E h \in Handlers : Continue(h)

SpecTyped == InitTyped /\ [][NextTyped]_vars


(***************************************************************************)
(* The cog is loaded on any date of the year, and the loop runs.  "winter" *)
(* is the icon and the banner of every guild; it is set on today for the   *)
(* icon of g1 and for both of g2, and on the day before for the banner of  *)
(* g1.                                                                     *)
(***************************************************************************)
InitLoad ==
  /\ now \in AllDates
  /\ lastChecked \in PrevDays(now)
  /\ images = [g \in Guilds |-> [cat \in Cats |->
                 Put(EmptyMap, "winter", WinterPng)]]
  /\ dates = [g \in Guilds |-> [cat \in Cats |->
                IF g = "g1" /\ cat = "banners"
                THEN Put(EmptyMap,
                         StorageDate(lastChecked[1], lastChecked[2]), "winter")
                ELSE Put(EmptyMap, StorageDate(now[1], now[2]), "winter")]]
  /\ files = [path \in {getFullFilepath(g, WinterPng, cat) :
                          g \in Guilds, cat \in Cats} |-> "bytes1"]
  /\ handler = [h \in Handlers |-> IdleHandler]
  /\ ncmds = 0
  /\ ndays = 0
  /\ loop = [IdleLoop EXCEPT !.pc = "start"]
  /\ noPermission \in SUBSET Guilds
  /\ woken = FALSE
  /\ unloaded = FALSE
  /\ edits = <<>>

SpecLoad == InitLoad /\ [][imageLoop]_vars


(***************************************************************************)
(* The daily loop: what is checked of it.                                  *)
(***************************************************************************)
\* the guild.edit calls for the asset scheduled on day d, made on day d
AppliedOn(g, cat, d) ==
  {i \in DOMAIN edits :
     /\ edits[i].guild = g /\ edits[i].imageType = cat
     /\ edits[i].day = d /\ edits[i].today = StorageDate(d[1], d[2])}

\* the days that began and ended after the cog was loaded
FullDays == DaysWithin(StartDates, ndays) \ (StartDates \cup {now})

\* day d has a schedule entry whose asset is registered and on disk
Scheduled(g, cat, d) ==
  LET key == StorageDate(d[1], d[2])
  IN  /\ key \in DOMAIN dates[g][cat]
      /\ dates[g][cat][key] \in DOMAIN images[g][cat]
      /\ getFullFilepath(g, images[g][cat][dates[g][cat][key]], cat)
           \in DOMAIN files

\* C1: for every guild, category and day with a schedule entry, the loop
\* calls guild.edit with the scheduled asset exactly once during that day:
\* never twice, and (the file being there, the permission granted, the loop
\* task alive) not zero times on a day that has passed.
C1_AppliedExactlyOncePerDay ==
  /\ \A g \in Guilds, cat \in Cats, d \in Window :
       Cardinality(AppliedOn(g, cat, d)) <= 1
  /\ loop.pc # "dead" =>
       \A g \in Guilds \ noPermission, cat \in Cats, d \in FullDays :
         Scheduled(g, cat, d) => AppliedOn(g, cat, d) # {}

\* the loop is about to use an asset whose mapping or whose file is missing
AssetMissing ==
  /\ loop.pc \in {"icons_images", "banners_images"}
  /\ LET guild == GuildOrder[loop.gi]
         cat == IF loop.pc = "icons_images" THEN "icons" ELSE "banners"
     IN  \/ loop.name \notin DOMAIN images[guild][cat]
         \/ getFullFilepath(guild, images[guild][cat][loop.name], cat)
              \notin DOMAIN files

\* where the loop is after it has skipped the category it was on
Skipped(before, after) ==
  /\ after.pc # "dead"
  /\ IF before.pc \in {"icons_images", "icons_edit"}
     THEN after.pc = "banners_dates" /\ after.gi = before.gi
     ELSE \/ after.pc = "icons_dates" /\ after.gi = before.gi + 1
          \/ after.pc = "sleep" /\ before.gi = Len(GuildOrder)

\* C2: in a daily check, a schedule entry for today whose asset mapping or
\* whose file is missing is a skip: no guild.edit call, the check goes on
\* with the next category or guild, and the loop is not stopped.
C2_MissingAssetIsSkipped ==
  [][(AssetMissing /\ loop' # loop) =>
       (edits' = edits /\ Skipped(loop, loop'))]_vars

\* C3: a Forbidden from guild.edit is never fatal: the check goes on with the
\* next category or guild, and that guild and category are not tried again
\* on the same day.
C3_ForbiddenIsNotFatalNorRetried ==
  [][/\ (/\ loop.pc \in {"icons_edit", "banners_edit"}
         /\ loop' # loop
         /\ edits'[Len(edits')].result = "Forbidden")
        => Skipped(loop, loop')
     /\ \A i, j \in DOMAIN edits' :
          (/\ i < j
           /\ edits'[i].result = "Forbidden"
           /\ edits'[i].guild = edits'[j].guild
           /\ edits'[i].imageType = edits'[j].imageType)
          => edits'[i].day # edits'[j].day]_vars


(***************************************************************************)
(* The commands: what is checked of them.                                  *)
(***************************************************************************)
\* slot h takes its step from pc value `from` to pc value `to`
Steps(h, from, to) == handler[h].pc = from /\ handler'[h].pc = to

\* a new invocation of cmd begins in slot h (and may end in the same step)
Begins(h, cmd) ==
  /\ Free(h) /\ ncmds' = ncmds + 1
  /\ handler'[h] # handler[h] /\ handler'[h].cmd = cmd

\* table[g][cat] aside, the table is as it was
OthersSame(old, new, g, cat) ==
  \A g2 \in Guilds, cat2 \in Cats :
    (g2 # g \/ cat2 # cat) => new[g2][cat2] = old[g2][cat2]

\* C4: a confirmed remove of an existing asset deletes the mapping of the
\* name, and deletes exactly the schedule entries of that guild and category
\* whose value is the name; every other entry and mapping is left as it was.
C4_RemoveDeletesExactlyItsEntries ==
  [][\A h \in Handlers :
       LET r == handler[h]
           g == r.guild
           cat == r.imageType
       IN  /\ Steps(h, "rm_del", "rm_cascade") =>
                /\ r.confirmed
                /\ DOMAIN images'[g][cat] = DOMAIN images[g][cat] \ {r.name}
                /\ \A n \in DOMAIN images'[g][cat] :
                     images'[g][cat][n] = images[g][cat][n]
                /\ OthersSame(images, images', g, cat)
                /\ dates' = dates
           /\ Steps(h, "rm_cascade", "done") =>
                /\ handler'[h].msg = MsgDeleted
                /\ \A key \in DOMAIN dates[g][cat] :
                     IF dates[g][cat][key] = r.name
                     THEN key \notin DOMAIN dates'[g][cat]
                     ELSE /\ key \in DOMAIN dates'[g][cat]
                          /\ dates'[g][cat][key] = dates[g][cat][key]
                /\ DOMAIN dates'[g][cat] \subseteq DOMAIN dates[g][cat]
                /\ OthersSame(dates, dates', g, cat)
                /\ images' = images
                /\ r.name \notin DOMAIN images[g][cat]]_vars

\* a remove has just deleted an asset that the command before it had set on
\* a date, and an entry of another asset is still there
C4_Witness ==
  LET r == handler["h1"]
  IN  /\ r.cmd = "remove" /\ r.pc = "done" /\ r.msg = MsgDeleted
      /\ r.prev.cmd = "set" /\ r.prev.ok /\ r.prev.name = r.name
      /\ r.prev.guild = r.guild /\ r.prev.imageType = r.imageType
      /\ r.name \notin DOMAIN images[r.guild][r.imageType]
      /\ r.name \notin Values(dates[r.guild][r.imageType])
      /\ dates[r.guild][r.imageType] # EmptyMap

\* C5: after any sequence of add, remove, set and reset commands run one at
\* a time to completion, every schedule entry's name is the name of an asset
\* of the same guild and category.
C5_NoDanglingEntry ==
  (\A h \in Handlers : Free(h)) =>
    \A g \in Guilds, cat \in Cats :
      Values(dates[g][cat]) \subseteq DOMAIN images[g][cat]

\* a remove has run to its end after a set of another asset, whose entry
\* is there
C5_Witness ==
  LET r == handler["h1"]
  IN  /\ \A h \in Handlers : Free(h)
      /\ r.cmd = "remove" /\ r.msg = MsgDeleted
      /\ r.prev.cmd = "set" /\ r.prev.ok /\ r.prev.name # r.name
      /\ r.prev.name \in Values(dates[r.guild][r.imageType])


\* C6: an add of a name that is in the registry replaces neither the stored
\* file nor the mapping unless its confirmation wait was given "yes" by the
\* requesting user in the same channel, whatever other commands run
\* meanwhile: a step that changes the mapping of a registered name, or the
\* bytes of its stored file, is a step of a confirmed add of that name.
C6_NoOverwriteWithoutYes ==
  [][\A g \in Guilds, cat \in Cats :
       \A name \in DOMAIN images[g][cat] :
         LET old == images[g][cat][name]
             filepath == getFullFilepath(g, old, cat)
             replaced ==
               \/ /\ name \in DOMAIN images'[g][cat]
                  /\ images'[g][cat][name] # old
               \/ /\ filepath \in DOMAIN files
                  /\ filepath \in DOMAIN files'
                  /\ files'[filepath] # files[filepath]
         IN  replaced =>
               \E h \in Handlers :
                 /\ handler[h].cmd = "add" /\ handler[h].name = name
                 /\ handler[h].guild = g /\ handler[h].imageType = cat
                 /\ handler[h].confirmed
                 /\ handler'[h] # handler[h]]_vars

\* what the claim calls an attachment that add must reject
NotOneImagePngOrGif(att) ==
  \/ att.count # 1
  \/ att.height = NoDimension
  \/ att.width = NoDimension
  \/ Lower(att.ext) \notin {PNG, GIF}

\* C7: add is rejected, with no file written and no mapping changed, when the
\* message has not exactly one attachment, or the attachment has no width or
\* no height, or its extension is neither .png nor .gif (in any case of the
\* letters); any other attachment passes the validation.
C7_AddRejectsBadAttachments ==
  [][\A h \in Handlers :
       Begins(h, "add") =>
         IF NotOneImagePngOrGif(handler'[h].att)
         THEN /\ handler'[h].pc = "done"
              /\ handler'[h].msg \in {MsgAttachOne, MsgNotImage, MsgNotPngGif}
              /\ cfgVars' = cfgVars
         ELSE handler'[h].pc \in {"add_confirm", "add_save"}]_vars

\* the calendar: the months and how many days each has, February with 29
CalendarDate(month, day) ==
  \/ month \in {1, 3, 5, 7, 8, 10, 12} /\ day \in 1..31
  \/ month \in {4, 6, 9, 11} /\ day \in 1..30
  \/ month = 2 /\ day \in 1..29

\* key is the text "MM-DD" of month and day, each of two digits
IsKeyOf(key, month, day) ==
  /\ Len(key) = 5
  /\ key[3] = "-"
  /\ \A i \in {1, 2, 4, 5} : \E n \in 1..10 : Digits[n] = key[i]
  /\ FromIsoFormat(key) = <<month, day>>

\* C8: set stores the name under the zero-padded "MM-DD" key, over any value
\* the key had and changing no other key, exactly when month and day are a
\* calendar date and the name is in the registry of the category; otherwise
\* the schedule is left as it was and an error is sent.
C8_SetStoresIffValid ==
  [][\A h \in Handlers :
       LET r == handler'[h]
           g == r.guild
           cat == r.imageType
       IN  /\ Begins(h, "set") =>
                /\ dates' = dates
                /\ IF /\ CalendarDate(r.month, r.day)
                      /\ r.name \in DOMAIN images[g][cat]
                   THEN r.pc = "set_write"
                   ELSE /\ r.pc = "done"
                        /\ r.msg \in {MsgInvalidDate, MsgDoesntExist}
           /\ Steps(h, "set_write", "done") =>
                /\ r.msg = MsgWillChange
                /\ \E key \in DOMAIN dates'[g][cat] :
                     /\ IsKeyOf(key, r.month, r.day)
                     /\ dates'[g][cat][key] = r.name
                     /\ DOMAIN dates'[g][cat] = DOMAIN dates[g][cat] \cup {key}
                     /\ \A k \in DOMAIN dates[g][cat] \ {key} :
                          dates'[g][cat][k] = dates[g][cat][k]
                /\ OthersSame(dates, dates', g, cat)
                /\ images' = images]_vars

\* a set of 29 February has replaced the name the key had
C8_Witness ==
  LET r == handler["h1"]
  IN  /\ r.cmd = "set" /\ r.pc = "done" /\ r.msg = MsgWillChange
      /\ r.month = 2 /\ r.day = 29
      /\ r.prev.cmd = "set" /\ r.prev.ok
      /\ r.prev.month = 2 /\ r.prev.day = 29 /\ r.prev.name # r.name
      /\ dates[r.guild][r.imageType][<<"0", "2", "-", "2", "9">>] = r.name

\* the lines of a list that show the date <<month, day>>
LinesOf(out, month, day) ==
  {i \in DOMAIN out.lines : out.lines[i].theDate = <<month, day>>}

\* C9: a set of (m, d, name) followed by a list shows the name at that date,
\* stored under the key "MM-DD"; a reset of (m, d) followed by a list shows no
\* line for that date, and shows as unassigned every asset that no date has.
C9_SetListResetList ==
  \A h \in Handlers :
    LET r == handler[h]
        p == r.prev
        table == dates[r.guild][r.imageType]
    IN  (/\ r.cmd = "list" /\ r.pc = "done" /\ r.msg = MsgListed
         /\ p.ok /\ p.guild = r.guild /\ p.imageType = r.imageType)
        => /\ p.cmd = "set" =>
                /\ \E i \in DOMAIN r.out.lines :
                     /\ LinesOf(r.out, p.month, p.day) = {i}
                     /\ r.out.lines[i].name = p.name
                /\ \E key \in DOMAIN table :
                     IsKeyOf(key, p.month, p.day) /\ table[key] = p.name
           /\ p.cmd = "reset" =>
                /\ LinesOf(r.out, p.month, p.day) = {}
                /\ \A key \in DOMAIN table : ~IsKeyOf(key, p.month, p.day)
                /\ \A n \in DOMAIN images[r.guild][r.imageType] :
                     (\A i \in DOMAIN r.out.lines : r.out.lines[i].name # n)
                       => n \in r.out.notAssigned

\* a list after a reset shows no date, and the asset as unassigned
C9_Witness ==
  LET r == handler["h1"]
  IN  /\ r.cmd = "list" /\ r.pc = "done" /\ r.msg = MsgListed
      /\ r.prev.cmd = "reset" /\ r.prev.ok
      /\ r.prev.month = 12 /\ r.prev.day = 25
      /\ r.out.lines = <<>>
      /\ "winter" \in r.out.notAssigned

\* C10: validDate is true of every month 1..12 with a day from 1 to the
\* length of the month (29 for February), and false of every other pair of
\* integers.
C10_ValidDateIsTheCalendar ==
  \A h \in Handlers :
    handler[h].cmd \in {"set", "reset"} =>
      (handler[h].msg = MsgInvalidDate
         <=> ~CalendarDate(handler[h].month, handler[h].day))

\* 29 February has passed validDate
C10_Witness ==
  /\ handler["h1"].cmd = "set"
  /\ handler["h1"].month = 2 /\ handler["h1"].day = 29
  /\ handler["h1"].pc = "set_write"


\* <<month, day>> a is earlier in the year than b
Earlier(a, b) == a[1] < b[1] \/ (a[1] = b[1] /\ a[2] < b[2])

\* what a finished list has shown, against the tables
ListSortedThenUnassigned ==
  \A h \in Handlers :
    LET r == handler[h]
        table == dates[r.guild][r.imageType]
        registry == images[r.guild][r.imageType]
    IN  (r.cmd = "list" /\ r.pc = "done") =>
          IF r.msg = MsgListed
          THEN /\ Len(r.out.lines) = Cardinality(DOMAIN table)
               /\ \A key \in DOMAIN table :
                    \E i \in DOMAIN r.out.lines :
                      /\ IsKeyOf(key, r.out.lines[i].theDate[1],
                                  r.out.lines[i].theDate[2])
                      /\ r.out.lines[i].name = table[key]
               /\ \A i, j \in DOMAIN r.out.lines :
                    i < j => Earlier(r.out.lines[i].theDate,
                                     r.out.lines[j].theDate)
               /\ r.out.notAssigned =
                    {n \in DOMAIN registry :
                       \A key \in DOMAIN table : table[key] # n}
          ELSE r.msg = MsgNoImages /\ registry = EmptyMap /\ table = EmptyMap

\* the steps of a list change no table and no file
ListChangesNothing ==
  [][\A h \in Handlers :
       (Begins(h, "list") \/ Steps(h, "list_dates", "done"))
         => cfgVars' = cfgVars]_vars

\* C11: a list shows the schedule entries, each once, in ascending order of
\* their date, then as unassigned exactly the assets of the registry that no
\* entry has as its value; the registry and the schedule are as they were.
C11_ListSortedThenUnassigned ==
  []ListSortedThenUnassigned /\ ListChangesNothing

\* a list has shown two dates, set in the other order, and an unassigned asset
C11_Witness ==
  LET r == handler["h1"]
  IN  /\ r.cmd = "list" /\ r.pc = "done" /\ r.msg = MsgListed
      /\ Len(r.out.lines) = 2
      /\ r.out.lines[1].theDate = <<2, 29>>
      /\ r.out.lines[2].theDate = <<12, 25>>
      /\ r.out.notAssigned = {"summer"}
      /\ r.prev.cmd = "set" /\ r.prev.month = 2


\* the message is "yes" (in any case of the letters) from the user who gave
\* the command, in the channel of the command
YesFromRequester(reply) ==
  /\ reply.author = "requester" /\ reply.channel = "same"
  /\ reply.content \in {<<a, b, c>> : a \in {"y", "Y"}, b \in {"e", "E"},
                                         c \in {"s", "S"}}

\* C12: a remove of an existing asset changes nothing unless the requesting
\* user replies "yes" to the confirmation: after a timeout or another reply
\* the mapping, the stored file and the schedule are as they were; a remove
\* of a name that is not there says so, asks nothing and changes nothing.
C12_RemoveNeedsYes ==
  [][\A h \in Handlers :
       LET r == handler[h]
           q == handler'[h]
       IN  /\ Begins(h, "remove") =>
                /\ cfgVars' = cfgVars
                /\ IF q.name \in DOMAIN images[q.guild][q.imageType]
                   THEN q.pc = "rm_confirm"
                   ELSE q.pc = "done" /\ q.msg = MsgDoesntExist
           /\ (r.pc = "rm_confirm" /\ q # r) =>
                IF q.pc = "rm_del"
                THEN YesFromRequester(q.reply)
                ELSE /\ q.pc = "done"
                     /\ q.msg \in {MsgTooLongDel, MsgNotDeleting}
                     /\ cfgVars' = cfgVars
           /\ (r.cmd = "remove" /\ ~Free(h) /\ q # r /\ cfgVars' # cfgVars) =>
                YesFromRequester(IF r.pc = "rm_confirm" THEN q.reply
                                 ELSE r.reply)]_vars

\* a remove of an asset that has a date was answered "no": all is there
C12_Witness ==
  LET r == handler["h1"]
  IN  /\ r.cmd = "remove" /\ r.pc = "done" /\ r.msg = MsgNotDeleting
      /\ r.name \in DOMAIN images[r.guild][r.imageType]
      /\ r.name \in Values(dates[r.guild][r.imageType])
      /\ getFullFilepath(r.guild, images[r.guild][r.imageType][r.name],
                         r.imageType) \in DOMAIN files


\* the loop is between two checks
LoopIdle(l) == l.pc \in {"start", "sleep"}

\* C13: the loop starts a check exactly once per calendar day.  A check
\* starts only on a wake-up that finds the day of the month other than that
\* of the last check, and never twice on one date; the start records the
\* current date as the last check before any guild is processed; and while
\* the loop runs no day ends on which no check was started.
C13_CheckOncePerDay ==
  [][/\ (LoopIdle(loop) /\ ~LoopIdle(loop')) =>
          /\ lastChecked[2] # now[2]
          /\ lastChecked # now
          /\ lastChecked' = now
          /\ loop'.pc = "icons_dates" /\ loop'.gi = 1
          /\ edits' = edits
     /\ (LoopIdle(loop) /\ woken' /\ lastChecked[2] # now[2]) =>
          ~LoopIdle(loop')
     /\ lastChecked' # lastChecked => (LoopIdle(loop) /\ ~LoopIdle(loop'))
     /\ (now' # now /\ loop.pc \notin {"dead", "cancelled"}) =>
          lastChecked = now]_vars

\* the second day after the load has begun, and its check has started
C13_Witness ==
  /\ ndays = 2
  /\ lastChecked = now
  /\ loop.pc = "icons_dates"


\* C14: when a set of a name and a confirmed remove of the same name have
\* both run to their end, in any interleaving of their steps, no schedule
\* entry has the removed name as its value.
C14_CascadeKeepsScheduleClean ==
  \A hs \in Handlers, hr \in Handlers :
    LET st == handler[hs]
        rm == handler[hr]
    IN  (/\ st.cmd = "set" /\ st.pc = "done" /\ st.msg = MsgWillChange
         /\ rm.cmd = "remove" /\ rm.pc = "done" /\ rm.msg = MsgDeleted
         /\ st.name = rm.name /\ st.guild = rm.guild
         /\ st.imageType = rm.imageType
         /\ rm.name \notin DOMAIN images[rm.guild][rm.imageType])
        => rm.name \notin Values(dates[rm.guild][rm.imageType])


\* the two commands do not mutate the same key of the same table
DifferentKeys(a, b) ==
  /\ (a.cmd = "add" /\ b.cmd = "add") => a.name # b.name
  /\ (a.cmd \in {"set", "reset"} /\ b.cmd \in {"set", "reset"}) =>
       <<a.month, a.day>> # <<b.month, b.day>>

\* the table holds what the finished command r put there (or took away)
EffectIsThere(r) ==
  LET table == dates[r.guild][r.imageType]
      registry == images[r.guild][r.imageType]
  IN  /\ r.msg = MsgSaved =>
           /\ r.name \in DOMAIN registry
           /\ registry[r.name].filename = <<r.name>> \o PNG
      /\ r.msg = MsgWillChange =>
           \E key \in DOMAIN table :
             IsKeyOf(key, r.month, r.day) /\ table[key] = r.name
      /\ r.msg = MsgRemoved =>
           \A key \in DOMAIN table : ~IsKeyOf(key, r.month, r.day)

\* C15: no update is lost: when two handlers mutate the same table of a
\* guild at once (two sets on different dates, two adds of different names,
\* a set and a reset on different dates), the table holds the effect of
\* both once both have completed.
C15_NoLostUpdate ==
  \A a \in Handlers, b \in Handlers :
    (/\ a # b
     /\ handler[a].pc = "done" /\ handler[b].pc = "done"
     /\ DifferentKeys(handler[a], handler[b]))
    => EffectIsThere(handler[a]) /\ EffectIsThere(handler[b])

\* two adds of different names that were both in flight have completed
C15_Witness ==
  /\ handler["h1"].msg = MsgSaved /\ handler["h2"].msg = MsgSaved
  /\ handler["h1"].name # handler["h2"].name
  /\ handler["h1"].prev.cmd = "none" /\ handler["h2"].prev.cmd = "none"
  /\ DOMAIN images["g1"]["icons"] = {"winter", "summer", "spring"}


\* C16: no command handler ends in an error nothing handles because a name
\* is not found: in every interleaving of commands (two confirmed removes of
\* one name, a show beside a remove) the handler sends a message instead.
C16_NoUnhandledNotFound ==
  \A h \in Handlers : handler[h].pc # "error"


\* C17: as long as the loop has not been cancelled, every change of the
\* local date is eventually followed by the start of a check for the new
\* date, whatever the outcome of the earlier checks.
C17_EveryDayIsEventuallyChecked ==
  (lastChecked # now) ~> (lastChecked = now \/ loop.pc = "cancelled")


\* the log of the handler says that its file was not on the disk
FileWasMissing(r) == r.log = "File does not exist"

\* C18: a confirmed remove whose stored file is not on the disk still
\* completes: the missing file is logged, the mapping is deleted, and the
\* schedule entries of the name (and no other) are deleted.
C18_RemoveToleratesMissingFile ==
  [][\A h \in Handlers :
       LET r == handler[h]
           q == handler'[h]
           g == r.guild
           cat == r.imageType
       IN  /\ (/\ r.pc = "rm_confirm" /\ q # r
                /\ q.msg \notin {MsgTooLongDel, MsgNotDeleting}
                /\ getFullFilepath(g, images[g][cat][r.name], cat)
                     \notin DOMAIN files)
               => /\ q.pc = "rm_del" /\ FileWasMissing(q)
                  /\ cfgVars' = cfgVars
           /\ (r.pc = "rm_del" /\ FileWasMissing(r) /\ q # r)
               => /\ q.pc = "rm_cascade" /\ FileWasMissing(q)
                  /\ images'[g][cat] = Del(images[g][cat], r.name)
                  /\ r.name \notin DOMAIN images'[g][cat]
           /\ (r.pc = "rm_cascade" /\ FileWasMissing(r) /\ q # r)
               => /\ q.pc = "done" /\ q.msg = MsgDeleted
                  /\ \A key \in DOMAIN dates[g][cat] :
                       IF dates[g][cat][key] = r.name
                       THEN key \notin DOMAIN dates'[g][cat]
                       ELSE /\ key \in DOMAIN dates'[g][cat]
                            /\ dates'[g][cat][key] = dates[g][cat][key]
                  /\ DOMAIN dates'[g][cat] \subseteq DOMAIN dates[g][cat]]_vars

\* a remove of "winter", whose file was gone, has completed: its dates are
\* gone and the date of "summer" is there
C18_Witness ==
  LET r == handler["h1"]
  IN  /\ r.cmd = "remove" /\ r.pc = "done" /\ r.msg = MsgDeleted
      /\ FileWasMissing(r) /\ r.name = "winter"
      /\ "winter" \notin DOMAIN images["g1"]["icons"]
      /\ Values(dates["g1"]["icons"]) = {"summer"}


\* C19: a reset of a valid date deletes the schedule entry of that date, if
\* there is one, and nothing else; with no entry on that date it says so and
\* the schedule is as it was; with an invalid date it sends an error and the
\* schedule is as it was.  The registry is never changed.
C19_ResetDeletesOneEntry ==
  [][\A h \in Handlers :
       Begins(h, "reset") =>
         LET q == handler'[h]
             old == dates[q.guild][q.imageType]
             new == dates'[q.guild][q.imageType]
             hit == {key \in DOMAIN old : IsKeyOf(key, q.month, q.day)}
         IN  /\ q.pc = "done"
             /\ images' = images /\ files' = files
             /\ OthersSame(dates, dates', q.guild, q.imageType)
             /\ Cardinality(hit) <= 1
             /\ DOMAIN new = DOMAIN old \ hit
             /\ \A key \in DOMAIN new : new[key] = old[key]
             /\ IF ~CalendarDate(q.month, q.day)
                THEN q.msg = MsgInvalidDate /\ hit = {}
                ELSE IF hit = {} THEN q.msg = MsgNoChanges
                ELSE q.msg = MsgRemoved]_vars

\* a reset of 25 December has deleted that date and left the two others
C19_Witness ==
  LET r == handler["h1"]
  IN  /\ r.cmd = "reset" /\ r.pc = "done" /\ r.msg = MsgRemoved
      /\ r.month = 12 /\ r.day = 25
      /\ DOMAIN dates["g1"]["icons"] =
           {<<"1", "2", "-", "2", "4">>, <<"1", "2", "-", "2", "6">>}


\* the category of the commands that slot h takes
TypedCat(h) == IF h = "h1" THEN "icons" ELSE "banners"

\* the category of the check the loop is in
LoopCat(l) ==
  IF l.pc \in {"icons_dates", "icons_images", "icons_edit"} THEN "icons"
  ELSE "banners"

\* C20: categories and guilds are isolated.  A step of a command typed for
\* one category of one guild leaves the registry and the schedule of the
\* other category and of every other guild as they were; the icon update of
\* the loop takes the name from the icon schedule and the file from the
\* icon registry of the guild, the banner update from the banner tables.
C20_CategoriesAndGuildsIsolated ==
  [][/\ \A h \in Handlers :
          handler'[h] # handler[h] =>
            /\ handler'[h].imageType = TypedCat(h)
            /\ OthersSame(images, images', handler'[h].guild, TypedCat(h))
            /\ OthersSame(dates, dates', handler'[h].guild, TypedCat(h))
     /\ (loop.pc \in {"icons_dates", "banners_dates"} /\ loop'.name # "none") =>
          /\ LoopCat(loop') = LoopCat(loop)
          /\ loop'.name = dates[GuildOrder[loop.gi]][LoopCat(loop)][loop.today]
     /\ edits' # edits /\ Len(edits') > Len(edits) =>
          LET e == edits'[Len(edits')]
              registry == images[e.guild][LoopCat(loop)]
          IN  /\ e.guild = GuildOrder[loop.gi]
              /\ e.imageType = LoopCat(loop)
              /\ e.name = loop.name
              /\ e.bytes = files[getFullFilepath(e.guild, registry[e.name],
                                                 LoopCat(loop))]
              /\ images' = images /\ dates' = dates]_vars

\* a banner has been removed in g2 by a banner command: the banner tables
\* of g2 have lost it, the icon of that name is there, and the loop has
\* applied the icon and the banner of g1
C20_Witness ==
  LET r == handler["h2"]
  IN  /\ r.cmd = "remove" /\ r.msg = MsgDeleted /\ r.guild = "g2"
      /\ r.name = "summer"
      /\ "summer" \notin DOMAIN images["g2"]["banners"]
      /\ dates["g2"]["banners"] = EmptyMap
      /\ "summer" \in DOMAIN images["g2"]["icons"]
      /\ dates["g2"]["icons"] # EmptyMap
      /\ Len(edits) >= 2
      /\ edits[1].imageType = "icons" /\ edits[1].bytes = "bytes1"
      /\ edits[2].imageType = "banners" /\ edits[2].bytes = "bytes2"


\* C21: cog_unload cancels the loop as a unit, whether it sleeps or is in
\* the middle of a check: the call leaves the task cancelled, and from then
\* on the loop takes no step, starts no check and calls guild.edit no more.
C21_CancelledAsAUnit ==
  [][/\ (unloaded' /\ ~unloaded) =>
          /\ loop'.pc = "cancelled"
          /\ edits' = edits /\ lastChecked' = lastChecked
     /\ unloaded =>
          /\ loop.pc = "cancelled" /\ loop' = loop
          /\ edits' = edits /\ lastChecked' = lastChecked]_vars

\* the cog was unloaded while a guild.edit of a check was awaited; the date
\* has changed since, and no check of the new date was started
C21_Witness ==
  /\ unloaded /\ loop.pc = "cancelled"
  /\ edits # <<>> /\ edits[Len(edits)].result = "sent"
  /\ lastChecked # now


\* the guild.edit calls made for the category cat of guild g
EditsOf(g, cat) ==
  {i \in DOMAIN edits : edits[i].guild = g /\ edits[i].imageType = cat}

\* when the task starts, the marker is of another day of the month than today
MarkerDiffersOnLoad == loop.pc = "start" => lastChecked[2] # now[2]

\* the first step of the task enters the check and records the date
FirstWakeChecks ==
  [][loop.pc = "start" =>
       /\ loop'.pc = "icons_dates" /\ loop'.gi = 1
       /\ lastChecked' = now]_vars

\* a first check that has run to its end has passed every asset set on
\* today to guild.edit, once, and nothing else
FirstCheckApplied ==
  (loop.pc = "sleep" /\ ndays = 0) =>
    \A g \in Guilds, cat \in Cats :
      LET key == StorageDate(now[1], now[2])
          table == dates[g][cat]
      IN  IF key \in DOMAIN table
          THEN \E i \in DOMAIN edits :
                 /\ EditsOf(g, cat) = {i}
                 /\ edits[i].name = table[key]
                 /\ edits[i].bytes =
                      files[getFullFilepath(g, images[g][cat][table[key]], cat)]
                 /\ edits[i].result =
                      IF g \in noPermission THEN "Forbidden" ELSE "changed"
          ELSE EditsOf(g, cat) = {}

\* C22: when the cog is loaded the loop runs a check at once, whatever the
\* date: the marker (now minus one day) is of another day of the month than
\* today, so the first iteration enters the check, and the check applies
\* the assets set on today.
C22_CheckOnLoad ==
  /\ []MarkerDiffersOnLoad
  /\ FirstWakeChecks
  /\ []FirstCheckApplied

\* loaded on 1 January, the first check has run to its end and has applied
\* the three assets set on that date
C22_Witness ==
  /\ now = <<1, 1>> /\ lastChecked = now
  /\ loop.pc = "sleep"
  /\ Len(edits) = 3
  /\ noPermission = {}

=============================================================================
